---- MODULE Spec2Model ----
(***************************************************************************)
(* The inventory ledger protocol of gas_inventory_api.py: the handlers     *)
(* transfer_cylinders, create_restocking and create_sale running as        *)
(* concurrent requests, each on a MySQL connection of its own, against the *)
(* tables inventory, restocking and sales.                                 *)
(*                                                                         *)
(* One action is one step of a handler: the arrival of the request with   *)
(* the code that runs before its first read of inventory, then a statement *)
(* (or the two writes of create_sale) at a time.  A transaction's writes   *)
(* are kept in the request until db.commit() applies them to the tables;   *)
(* the tables hold the committed rows only.  Row locks are the InnoDB      *)
(* exclusive locks taken by SELECT ... FOR UPDATE, UPDATE and INSERT, held *)
(* until the transaction ends.  The tables carry no constraint the source  *)
(* does not state: the counts are signed and (supplier_id, type_id) is not *)
(* a unique key.                                                           *)
(*                                                                         *)
(* The suppliers and cylinder_types rows the requests refer to exist and   *)
(* stay (the record store is not modelled), so the JOINs of create_sale    *)
(* match every inventory row.  Columns omitted from the rows (prices,      *)
(* dates, names, notes) take no part in any stock decision.                *)
(***************************************************************************)
EXTENDS Integers, FiniteSets, Bags, TLC

\* ---------------------------------------------------------------- bounds
MaxReq == 3          \* requests in a behaviour of one handler only
MaxMixed == 2        \* requests in a behaviour of all three handlers (Spec)
MaxQty == 2          \* largest quantity a request carries

Req == 1..MaxReq
Quantities == -1..MaxQty      \* quantity: int, so zero and negatives too
Statuses == {"empty", "full", "other"}
SupplierIds == {1}
TypeIds == {1, 2}
InitFull == MaxQty            \* full_count of the row in the seeded start

VARIABLES
    inventory,          \* committed rows of table inventory
    restocking,         \* committed rows of table restocking (a bag)
    sales,              \* committed rows of table sales (a bag)
    next_inventory_id,  \* AUTO_INCREMENT counter of table inventory
    req,                \* per request: handler, position, locals, transaction
    response            \* the response sent last

vars == <<inventory, restocking, sales, next_inventory_id, req, response>>

\* ------------------------------------------------------------- rows
InventoryRow(id, s, t, e, f) ==
    [inventory_id |-> id, supplier_id |-> s, type_id |-> t,
     empty_count |-> e, full_count |-> f]

\* The keys restock_id and sale_id only tell equal rows apart: the two
\* history tables are bags of the columns below.
RestockingRow(s, t, q) == [supplier_id |-> s, type_id |-> t, quantity |-> q]

SaleRow(inv, q) == [inventory_id |-> inv, quantity |-> q]

Idle ==
    [kind |-> "none", pc |-> "idle", inventory_id |-> 0,
     from_status |-> "none", to_status |-> "none",
     supplier_id |-> 0, type_id |-> 0, quantity |-> 0,
     found |-> FALSE, writes |-> {}, log |-> EmptyBag,
     locks |-> {}, committed |-> FALSE]

\* ------------------------------------------------------------- helpers
Ids(rows) == {row.inventory_id : row \in rows}

RowOf(rows, id) == CHOOSE row \in rows : row.inventory_id = id

PairRows(rows, s, t) == {row \in rows : row.supplier_id = s /\ row.type_id = t}

Count(row, status) ==
    IF status = "empty" THEN row.empty_count ELSE row.full_count

InFlight(r) == req[r].pc \notin {"idle", "returned"}

\* Rows another connection holds an exclusive lock on.
LockedByOthers(r) == UNION {req[o].locks : o \in Req \ {r}}

\* A locking read that does not wait for the lock.
LockIgnored(r, ids) == TRUE

\* SELECT ... FOR UPDATE and UPDATE wait until no other connection holds
\* an exclusive lock on a row they touch.
LockFree(r, ids) == ids \cap LockedByOthers(r) = {}

\* Rows of the pair other transactions have inserted and not yet committed.
PendingInserts(r, s, t) ==
    UNION {{w.inventory_id : w \in PairRows(req[o].writes, s, t)} \ Ids(inventory)
           : o \in Req \ {r}}

\* db.commit(): the transaction's row images replace or extend the table.
ApplyWrites(rows, ws) == {row \in rows : row.inventory_id \notin Ids(ws)} \cup ws

\* The handler has returned: its locals are gone.  The connection is not
\* closed, so what its transaction holds (locks) stays with it.
Returned(rec) == [Idle EXCEPT !.pc = "returned", !.locks = rec.locks]

\* The response of the request that returns: its status, and whether the
\* request's db.commit() had gone through.
Response(rec, code) == [code |-> code, committed |-> rec.committed]

\* return / raise HTTPException: the handler ends with this response.
Return(r, rec, code) ==
    /\ req' = [req EXCEPT ![r] = Returned(rec)]
    /\ response' = Response(rec, code)

\* ------------------------------------------------------------- Init
EmptyDb == [inventory |-> {}, restocking |-> EmptyBag, next_inventory_id |-> 1]

\* The database after one restock of InitFull cylinders for pair (1, 1).
SeededDb ==
    [inventory |-> {InventoryRow(1, 1, 1, 0, InitFull)},
     restocking |-> SetToBag({RestockingRow(1, 1, InitFull)}),
     next_inventory_id |-> 2]

\* No request has arrived; the database is db.
Start(db) ==
    /\ inventory = db.inventory
    /\ restocking = db.restocking
    /\ next_inventory_id = db.next_inventory_id
    /\ sales = EmptyBag
    /\ req = [r \in Req |-> Idle]
    /\ response = Response(Idle, "none")

Init == \E db \in {EmptyDb, SeededDb} : Start(db)

\* Requests take the slots in order; every request runs on a connection of
\* its own, concurrently with the requests before it.
CanArrive(r) ==
    /\ req[r].pc = "idle"
    /\ \A o \in Req : o < r => req[o].pc # "idle"

Arrived == Cardinality({o \in Req : req[o].pc # "idle"})

tables == <<inventory, restocking, sales>>
counters == <<next_inventory_id>>

\* ------------------------------------------------ transfer_cylinders
\* The comparison with <= for <.
InsufficientStockOffByOne(count, quantity) == count <= quantity

\* "if from_count < quantity" / "if inventory['full_count'] < sale.quantity"
InsufficientStock(count, quantity) == count < quantity

\* The UPDATE without its second assignment.
TransferImageNoCredit(row, from_status, quantity) ==
    IF from_status = "empty"
    THEN [row EXCEPT !.empty_count = @ - quantity]
    ELSE [row EXCEPT !.full_count = @ - quantity]

\* UPDATE inventory SET {from}_count = {from}_count - q, {to}_count = {to}_count + q
TransferImage(row, from_status, quantity) ==
    IF from_status = "empty"
    THEN [row EXCEPT !.empty_count = @ - quantity, !.full_count = @ + quantity]
    ELSE [row EXCEPT !.full_count = @ - quantity, !.empty_count = @ + quantity]

\* The request arrives; the two status checks run before any statement.
TransferRequest(r, id, from, to, q) ==
    /\ CanArrive(r)
    /\ LET rec == [Idle EXCEPT !.kind = "transfer", !.inventory_id = id,
                               !.from_status = from, !.to_status = to,
                               !.quantity = q] IN
       IF from \notin {"empty", "full"} \/ to \notin {"empty", "full"}
       THEN Return(r, rec, "400 status")
       ELSE IF from = to
            THEN Return(r, rec, "400 same status")
            ELSE /\ req' = [req EXCEPT ![r] = [rec EXCEPT !.pc = "select"]]
                 /\ UNCHANGED response
    /\ UNCHANGED <<tables, counters>>

\* SELECT * FROM inventory WHERE inventory_id = %s FOR UPDATE, then the
\* NotFound and sufficiency checks.  Both raise HTTPException, which
\* "except Error" does not catch: no rollback, the lock stays.
TransferSelect(r) ==
    LET rec == req[r] IN
    /\ rec.kind = "transfer" /\ rec.pc = "select"
    /\ LockFree(r, {rec.inventory_id})
    /\ IF rec.inventory_id \notin Ids(inventory)
       THEN Return(r, rec, "404")
       ELSE LET row == RowOf(inventory, rec.inventory_id)
                locked == [rec EXCEPT !.locks = {rec.inventory_id}] IN
            IF InsufficientStock(Count(row, rec.from_status), rec.quantity)
            THEN Return(r, locked, "400 insufficient")
            ELSE /\ req' = [req EXCEPT ![r] = [locked EXCEPT !.pc = "write"]]
                 /\ UNCHANGED response
    /\ UNCHANGED <<tables, counters>>

TransferUpdate(r) ==
    LET rec == req[r] IN
    /\ rec.kind = "transfer" /\ rec.pc = "write"
    /\ req' = [req EXCEPT ![r] =
                 [rec EXCEPT !.pc = "commit",
                    !.writes = {TransferImage(RowOf(inventory, rec.inventory_id),
                                              rec.from_status, rec.quantity)}]]
    /\ UNCHANGED <<tables, counters, response>>

\* db.commit(): the transaction's writes become visible, its locks go.
Commit(r) ==
    LET rec == req[r] IN
    /\ rec.pc = "commit"
    /\ inventory' = ApplyWrites(inventory, rec.writes)
    /\ restocking' = IF rec.kind = "restock" THEN restocking (+) rec.log
                     ELSE restocking
    /\ sales' = IF rec.kind = "sale" THEN sales (+) rec.log ELSE sales
    /\ req' = [req EXCEPT ![r] =
                 [rec EXCEPT !.pc = "readback", !.writes = {}, !.log = EmptyBag,
                             !.locks = {}, !.committed = TRUE]]
    /\ UNCHANGED <<counters, response>>

\* The SELECT after the commit, whose row is the response body.
Readback(r) ==
    /\ req[r].pc = "readback"
    /\ Return(r, req[r], "200")
    /\ UNCHANGED <<tables, counters>>

\* A statement raises mysql.connector.Error (lost connection, lock wait
\* timeout, ...): "except Error" calls db.rollback() and answers 400.
\* After the commit the rollback has nothing left to undo.
StorageError(r) ==
    LET rec == req[r] IN
    /\ InFlight(r)
    /\ Return(r, [rec EXCEPT !.locks = {}], "400 error")
    /\ UNCHANGED <<tables, counters>>

TransferCommit(r) == req[r].kind = "transfer" /\ Commit(r)

TransferReadback(r) == req[r].kind = "transfer" /\ Readback(r)

TransferError(r) == req[r].kind = "transfer" /\ StorageError(r)

\* ------------------------------------------------ create_restocking
\* UPDATE inventory SET full_count = full_count + q WHERE supplier_id, type_id
RestockImage(row, quantity) == [row EXCEPT !.full_count = @ + quantity]

\* db.start_transaction(); INSERT INTO restocking ...
RestockInsert(r, s, t, q) ==
    /\ CanArrive(r)
    /\ req' = [req EXCEPT ![r] =
                 [Idle EXCEPT !.kind = "restock", !.pc = "select",
                              !.supplier_id = s, !.type_id = t, !.quantity = q,
                              !.log = SetToBag({RestockingRow(s, t, q)})]]
    /\ UNCHANGED <<tables, counters, response>>

\* SELECT inventory_id FROM inventory WHERE supplier_id AND type_id: a plain
\* consistent read, it sees the committed rows and takes no lock.
RestockSelect(r) ==
    LET rec == req[r] IN
    /\ rec.kind = "restock" /\ rec.pc = "select"
    /\ req' = [req EXCEPT ![r] =
                 [rec EXCEPT !.pc = "write",
                    !.found = PairRows(inventory, rec.supplier_id, rec.type_id) # {}]]
    /\ UNCHANGED <<tables, counters, response>>

\* "if inventory": the UPDATE of every row of the pair, which waits for the
\* locks of the rows it touches.
RestockUpdate(r) ==
    LET rec == req[r]
        rows == PairRows(inventory, rec.supplier_id, rec.type_id) IN
    /\ rec.kind = "restock" /\ rec.pc = "write" /\ rec.found
    /\ LockFree(r, Ids(rows))
    /\ PendingInserts(r, rec.supplier_id, rec.type_id) = {}
    /\ req' = [req EXCEPT ![r] =
                 [rec EXCEPT !.pc = "commit", !.locks = Ids(rows),
                    !.writes = {RestockImage(row, rec.quantity) : row \in rows}]]
    /\ UNCHANGED <<tables, counters, response>>

\* "else": INSERT INTO inventory (supplier_id, type_id, 0, quantity)
RestockCreate(r) ==
    LET rec == req[r] IN
    /\ rec.kind = "restock" /\ rec.pc = "write" /\ ~rec.found
    /\ req' = [req EXCEPT ![r] =
                 [rec EXCEPT !.pc = "commit", !.locks = {next_inventory_id},
                    !.writes = {InventoryRow(next_inventory_id, rec.supplier_id,
                                             rec.type_id, 0, rec.quantity)}]]
    /\ next_inventory_id' = next_inventory_id + 1
    /\ UNCHANGED <<tables, response>>

RestockCommit(r) == req[r].kind = "restock" /\ Commit(r)

RestockReadback(r) == req[r].kind = "restock" /\ Readback(r)

RestockError(r) == req[r].kind = "restock" /\ StorageError(r)

\* ------------------------------------------------ create_sale
\* UPDATE inventory SET full_count = full_count - q, empty_count = empty_count + q
SaleImage(row, quantity) ==
    [row EXCEPT !.full_count = @ - quantity, !.empty_count = @ + quantity]

\* db.start_transaction()
SaleRequest(r, id, q) ==
    /\ CanArrive(r)
    /\ req' = [req EXCEPT ![r] =
                 [Idle EXCEPT !.kind = "sale", !.pc = "select",
                              !.inventory_id = id, !.quantity = q]]
    /\ UNCHANGED <<tables, counters, response>>

\* SELECT i.*, ... FROM inventory i JOIN ... WHERE i.inventory_id = %s FOR
\* UPDATE, then the NotFound and sufficiency checks (HTTPException: no
\* rollback, the lock stays).
SaleSelect(r) ==
    LET rec == req[r] IN
    /\ rec.kind = "sale" /\ rec.pc = "select"
    /\ LockFree(r, {rec.inventory_id})
    /\ IF rec.inventory_id \notin Ids(inventory)
       THEN Return(r, rec, "404")
       ELSE LET row == RowOf(inventory, rec.inventory_id)
                locked == [rec EXCEPT !.locks = {rec.inventory_id}] IN
            IF InsufficientStock(row.full_count, rec.quantity)
            THEN Return(r, locked, "400 insufficient")
            ELSE /\ req' = [req EXCEPT ![r] = [locked EXCEPT !.pc = "write"]]
                 /\ UNCHANGED response
    /\ UNCHANGED <<tables, counters>>

\* INSERT INTO sales ...; UPDATE inventory ... WHERE inventory_id = %s
SaleWrite(r) ==
    LET rec == req[r] IN
    /\ rec.kind = "sale" /\ rec.pc = "write"
    /\ req' = [req EXCEPT ![r] =
                 [rec EXCEPT !.pc = "commit",
                    !.log = SetToBag({SaleRow(rec.inventory_id, rec.quantity)}),
                    !.writes = {SaleImage(RowOf(inventory, rec.inventory_id),
                                          rec.quantity)}]]
    /\ UNCHANGED <<tables, counters, response>>

SaleCommit(r) == req[r].kind = "sale" /\ Commit(r)

SaleReadback(r) == req[r].kind = "sale" /\ Readback(r)

SaleError(r) == req[r].kind = "sale" /\ StorageError(r)

\* ------------------------------------------------ connections
\* get_db_connection() opens a connection per request and no handler closes
\* it; when it is finally dropped the server rolls back the transaction
\* left open on it and frees its locks.
ConnectionDropped(r) ==
    /\ req[r].pc = "returned"
    /\ req[r].locks # {}
    /\ req' = [req EXCEPT ![r].locks = {}]
    /\ UNCHANGED <<tables, counters, response>>

\* inventory_id is any int: the ids in use and one that is not (yet).
InventoryIds == 1..next_inventory_id

TransferSteps ==
    \/ \E r \in Req : TransferSelect(r)
    \/ \E r \in Req : TransferUpdate(r)
    \/ \E r \in Req : TransferCommit(r)
    \/ \E r \in Req : TransferReadback(r)
    \/ \E r \in Req : TransferError(r)

RestockSteps ==
    \/ \E r \in Req : RestockSelect(r)
    \/ \E r \in Req : RestockUpdate(r)
    \/ \E r \in Req : RestockCreate(r)
    \/ \E r \in Req : RestockCommit(r)
    \/ \E r \in Req : RestockReadback(r)
    \/ \E r \in Req : RestockError(r)

SaleSteps ==
    \/ \E r \in Req : SaleSelect(r)
    \/ \E r \in Req : SaleWrite(r)
    \/ \E r \in Req : SaleCommit(r)
    \/ \E r \in Req : SaleReadback(r)
    \/ \E r \in Req : SaleError(r)

TransferArrives ==
    \E r \in Req, id \in InventoryIds, from \in Statuses, to \in Statuses,
       q \in Quantities : TransferRequest(r, id, from, to, q)

RestockArrives(types) ==
    \E r \in Req, s \in SupplierIds, t \in types, q \in Quantities :
       RestockInsert(r, s, t, q)

SaleArrives ==
    \E r \in Req, id \in InventoryIds, q \in Quantities : SaleRequest(r, id, q)

\* Requests of the three handlers, in any mix and interleaving, on the one
\* pair (1, 1).
Next ==
    \/ Arrived < MaxMixed /\ TransferArrives
    \/ Arrived < MaxMixed /\ RestockArrives({1})
    \/ Arrived < MaxMixed /\ SaleArrives
    \/ TransferSteps
    \/ RestockSteps
    \/ SaleSteps
    \/ \E r \in Req : ConnectionDropped(r)

Spec == Init /\ [][Next]_vars

\* Sales only, against the seeded row.
SaleNext ==
    \/ SaleArrives
    \/ SaleSteps
    \/ \E r \in Req : ConnectionDropped(r)

SaleInit == Start(SeededDb)

SaleSpec == SaleInit /\ [][SaleNext]_vars

\* Restocks only, into the empty database, for two pairs.
RestockNext ==
    \/ RestockArrives(TypeIds)
    \/ RestockSteps

RestockInit == Start(EmptyDb)

RestockSpec == RestockInit /\ [][RestockNext]_vars

\* ---------------------------------------------------------------- sums
RECURSIVE SumCounts(_)
SumCounts(rows) ==
    IF rows = {} THEN 0
    ELSE LET row == CHOOSE x \in rows : TRUE IN
         row.empty_count + row.full_count + SumCounts(rows \ {row})

RECURSIVE SumQuantity(_, _)
SumQuantity(bag, rows) ==
    IF rows = {} THEN 0
    ELSE LET row == CHOOSE x \in rows : TRUE IN
         row.quantity * CopiesIn(row, bag) + SumQuantity(bag, rows \ {row})

Sold(bag, id) == SumQuantity(bag, {x \in BagToSet(bag) : x.inventory_id = id})

Restocked(bag, s, t) ==
    SumQuantity(bag, {x \in BagToSet(bag) : x.supplier_id = s /\ x.type_id = t})

\* Request r leaves position from for position to in this step.
Moves(r, from, to) == req[r].pc = from /\ req'[r].pc = to

\* Request r returns in this step with a response other than the 400 of
\* "except Error".
Answers(r) ==
    /\ req[r].pc # "returned" /\ req'[r].pc = "returned"
    /\ response'.code # "400 error"

\* ---------------------------------------------------------------- claims

\* C1: in every committed state every inventory row has empty_count >= 0
\* and full_count >= 0, whatever quantities the requests carried.
C1_CountsNonNegative ==
    \A row \in inventory : row.empty_count >= 0 /\ row.full_count >= 0

\* C2: with concurrent sales against row 1 only, the quantities of the
\* committed sales sum to at most the full_count the row started with, and a
\* sale that ends without committing (and without a storage error) was
\* refused with the insufficient-stock error because it did not fit.
C2_NoOversell ==
    [][/\ Sold(sales', 1) <= InitFull
       /\ \A r \in Req :
            (/\ req[r].kind = "sale" /\ req[r].inventory_id = 1
             /\ Answers(r) /\ ~response'.committed)
            => /\ response'.code = "400 insufficient"
               /\ RowOf(inventory, 1).full_count < req[r].quantity]_vars

\* C2 witness: a sale of the whole stock has committed and, before it
\* returned, a concurrent sale was refused.
C2_Witness ==
    /\ Sold(sales, 1) = InitFull
    /\ response.code = "400 insufficient"
    /\ \E r \in Req : req[r].pc = "readback" /\ req[r].quantity = InitFull

\* C3: a request that ends with an error response has committed nothing (a
\* request's writes reach the tables through its db.commit() only).
C3_ErrorLeavesNoEffect ==
    response.code \notin {"none", "200"} => ~response.committed

\* C4: the inventory table holds at most one row per (supplier_id, type_id).
C4_OneRowPerPair ==
    \A a \in inventory, b \in inventory :
        (a.supplier_id = b.supplier_id /\ a.type_id = b.type_id) => a = b

\* C5: the commit of a restock of Q for a pair appends one restocking row
\* and either creates the pair's row (0, Q) when the pair has none, or adds Q
\* to full_count of the pair's one row; nothing else changes.
C5_RestockEffect ==
    [][\A r \in Req :
         (req[r].kind = "restock" /\ Moves(r, "commit", "readback")) =>
         LET s == req[r].supplier_id
             t == req[r].type_id
             q == req[r].quantity
             old == PairRows(inventory, s, t) IN
         /\ restocking' = restocking (+) SetToBag({RestockingRow(s, t, q)})
         /\ IF old = {}
            THEN \E id \in 1..next_inventory_id :
                   /\ id \notin Ids(inventory)
                   /\ inventory' = inventory \cup {InventoryRow(id, s, t, 0, q)}
            ELSE \E row \in old :
                   inventory' = (inventory \ {row}) \cup
                                {[row EXCEPT !.full_count = @ + q]}]_vars

\* C6: a transfer on an existing row passes its check exactly when the
\* quantity is at most the from-bucket's count, and its commit takes the
\* quantity from the from-bucket and adds it to the to-bucket of that row and
\* changes nothing else; otherwise it is refused with the insufficient-stock
\* error and the table is unchanged.
C6_Transfer ==
    [][\A r \in Req :
         (req[r].kind = "transfer" /\ req[r].inventory_id \in Ids(inventory)) =>
         LET q == req[r].quantity
             old == RowOf(inventory, req[r].inventory_id)
             new == IF req[r].from_status = "full"
                    THEN [old EXCEPT !.full_count = @ - q, !.empty_count = @ + q]
                    ELSE [old EXCEPT !.empty_count = @ - q, !.full_count = @ + q] IN
         /\ (req[r].pc = "select" /\ q <= Count(old, req[r].from_status))
            => ~Answers(r)
         /\ (req[r].pc = "select" /\ Answers(r))
            => /\ q > Count(old, req[r].from_status)
               /\ response'.code = "400 insufficient"
               /\ inventory' = inventory
         /\ Moves(r, "commit", "readback")
            => /\ q <= Count(old, req[r].from_status)
               /\ inventory' = (inventory \ {old}) \cup {new}]_vars

\* C6 witness: a transfer of the whole full stock to empty has committed.
C6_Witness ==
    \E r \in Req :
        /\ req[r].kind = "transfer" /\ req[r].pc = "readback"
        /\ req[r].from_status = "full" /\ req[r].quantity = InitFull
        /\ InventoryRow(1, 1, 1, InitFull, 0) \in inventory

\* C7: a sale on an existing row passes its check exactly when full_count
\* >= quantity; its commit appends one sales row, takes the quantity from
\* full_count and adds it to empty_count; a sale refused for insufficient
\* stock or for an unknown inventory_id changes no table.
C7_Sale ==
    [][\A r \in Req :
         req[r].kind = "sale" =>
         LET q == req[r].quantity
             id == req[r].inventory_id IN
         /\ (req[r].pc = "select" /\ Answers(r))
            => /\ inventory' = inventory /\ sales' = sales
               /\ IF id \in Ids(inventory)
                  THEN /\ response'.code = "400 insufficient"
                       /\ RowOf(inventory, id).full_count < q
                  ELSE response'.code = "404"
         /\ (req[r].pc = "select" /\ id \in Ids(inventory)
               /\ RowOf(inventory, id).full_count >= q)
            => ~Answers(r)
         /\ Moves(r, "commit", "readback")
            => LET old == RowOf(inventory, id) IN
               /\ old.full_count >= q
               /\ sales' = sales (+) SetToBag({SaleRow(id, q)})
               /\ inventory' = (inventory \ {old}) \cup
                    {[old EXCEPT !.full_count = @ - q,
                                 !.empty_count = @ + q]}]_vars

\* C7 witness: after the restock of InitFull, a sale of one has committed.
C7_Witness ==
    \E r \in Req :
        /\ req[r].kind = "sale" /\ req[r].pc = "readback" /\ req[r].quantity = 1
        /\ InventoryRow(1, 1, 1, 1, InitFull - 1) \in inventory
        /\ sales = SetToBag({SaleRow(1, 1)})

\* C8: a request that has returned holds no row lock: its transaction was
\* committed or rolled back before the handler returned.
C8_TransactionEnded ==
    \A r \in Req : req[r].pc = "returned" => req[r].locks = {}

\* C9: no transfer of a quantity <= 0 passes to the write: it is rejected.
C9_QuantityPositive ==
    \A r \in Req :
        (req[r].kind = "transfer" /\ req[r].quantity <= 0) => ~req[r].committed

====
